---- MODULE Spec2Model ----
\* TCP echo server with graceful shutdown
\* (src/code/tcp_server_graceful_shutdown/src/main.rs).
\*
\* The model follows the three async functions of the program: run_server (the
\* accept loop and the drain of the JoinSet), handle_connection (the
\* read-vs-shutdown race of one connection) and main (the orchestrated run), and
\* the tokio primitives they call: the broadcast channel (send, recv,
\* resubscribe, drop of the sender), the JoinSet (spawn, join_next) and the TCP
\* stream of each connection (read, write_all, timeout).
EXTENDS Integers, Sequences, FiniteSets

\* ---------------------------------------------------------------- bounds
\* Spec: the free environment (any peers, any moment of the send): the
\* connections, the bytes the peers write in all, the values sent, the accept
\* errors.
MaxConns == 2
MaxBytes == 2
MaxSends == 1
MaxAcceptErrs == 1
\* LagSpec: the same environment with a holder of shutdown_tx that sends more
\* values than the channel holds, so that receivers lag.
LagConns == 1
LagBytes == 1
LagSends == 17
\* FairSpec: the same environment, smaller, for the liveness checks.
FairConns == 2
FairBytes == 1
\* AccSpec: the same environment with a listener whose accept fails again and
\* again.
AccConns == 2
AccBytes == 1
AccErrs == 3
\* A read returns all the readable bytes, or it is a short read: at most
\* MaxShortReads of them in a run, of at most MaxShortRead bytes each.
MaxShortRead == 1
MaxShortReads == 1
\* Bytes a failing write may have put on the wire before it failed.
MaxPartial == 1

\* ------------------------------------------------------ program constants
\* broadcast::channel::<()>(16)
Capacity == 16
\* let mut buf = [0_u8; 1024]
BufSize == 1024

\* b"server shutting down\n" as its bytes
GOODBYE == <<115, 101, 114, 118, 101, 114, 32, 115, 104, 117, 116, 116, 105,
             110, 103, 32, 100, 111, 119, 110, 10>>

\* The i-th byte the peer of connection c writes. handle_connection never looks
\* at the bytes it moves, so bytes that differ from one another and from one
\* connection to the other are the most general payload.
Payload(c, i) == 16 * c + i

VARIABLES
    \* broadcast channel
    tail,          \* position of the channel's tail: the number of values sent
    tx_alive,      \* shutdown_tx has not been dropped
    send_res,      \* result of the last send(): "none", "Ok", "Err"
    rx_next,       \* rx_next[0]: next position of run_server's shutdown_rx;
                   \* rx_next[c]: next position of connection c's conn_shutdown
    \* run_server
    server_pc,     \* "accept_loop", "drain", "returned"
    server_recv,   \* what shutdown_rx.recv() yielded: "none","Ok","Lagged","Closed"
    server_result, \* "none", "Ok"
    connections,   \* the JoinSet: tasks spawned and not yet joined
    join_log,      \* results join_next() has returned, in order: <<c, "Ok"|"JoinErr">>
    accept_errs,   \* accept errors logged
    \* connection c: the peer, the stream, handle_connection and its task
    peer,          \* "none", "open", "closed" (FIN), "reset" (RST)
    inflight,      \* bytes the peer wrote and the handler has not read
    short_reads,   \* short reads so far
    hpc,           \* "none", "select", "echo", "goodbye", "done"
    hrecv,         \* what conn_shutdown.recv() yielded: "none","Ok","Lagged","Closed"
    buf,           \* buf[..n] of the last read
    readlog,       \* every byte the handler has read, in order
    to_peer,       \* every byte the handler has written to the socket, in order
    hres,          \* result of handle_connection: "none","Ok","TimedOut",
                   \* "ConnectionReset","WriteErr"
    task,          \* the spawned task: "none","running","finished","panicked"
    goodbye_n,     \* how many bytes of the goodbye the handler has written
    io_fault,      \* the I/O failures the handler has met: a subset of
                   \* {"read", "echo_timeout", "echo_io", "goodbye"}
    born,          \* tail position at the resubscribe() of the connection
    echo_log,      \* one entry for each echo write the handler has completed:
                   \* whether send() had been called by then
    at_send,       \* the handler was in its select when the first send() was called
    \* main and run_client
    main_pc,       \* "none" (run_server under a free environment), "connect",
                   \* "write", "read" (run_client), "send", "await", "done", "failed"
    cur,           \* the client main is running: 1 is "client-1", 2 is "client-2"
    client_n,      \* client_n[c]: the n of run_client's read, -1 before it
    report         \* what main prints of the server task: "none", "clean", "error"

chan == <<tail, tx_alive, send_res, rx_next>>
srvv == <<server_pc, server_recv, server_result, connections, join_log, accept_errs>>
sock == <<peer, inflight, short_reads>>
hndl == <<hpc, hrecv, buf, readlog, to_peer, hres, task, goodbye_n, io_fault, born,
          echo_log>>
mainv == <<main_pc, cur, client_n, report>>
vars == <<chan, srvv, sock, hndl, at_send, mainv>>

Conns == DOMAIN hpc

Min(a, b) == IF a < b THEN a ELSE b

Prefix(s, n) == SubSeq(s, 1, n)

Suffix(s, n) == SubSeq(s, n + 1, Len(s))

\* read(&mut buf) with `avail` bytes readable returns them all (the buffer full
\* at most) or fewer: a short read.
FullRead(avail) == Min(avail, BufSize)

ReadSizes(avail) ==
    {n \in 1..FullRead(avail) :
        n = FullRead(avail) \/ (n <= MaxShortRead /\ short_reads < MaxShortReads)}

\* The count of short reads after a read of n bytes.
CountRead(avail, n) == IF n = FullRead(avail) THEN short_reads ELSE short_reads + 1

\* ------------------------------------------------------ broadcast channel
\* Mutant of RecvResult: a receiver with nothing to read stays pending after
\* the sender is gone.
RecvResult_NeverClosed(next) ==
    IF next = tail
    THEN "Empty"
    ELSE IF tail - next > Capacity THEN "Lagged" ELSE "Ok"

\* Receiver::recv: a value at `next` is returned unless the sender has
\* overwritten it (more than Capacity values behind the tail); with nothing to
\* read the receiver is Closed when every sender is gone and pending otherwise.
RecvResult(next) ==
    IF next = tail
    THEN IF tx_alive THEN "Empty" ELSE "Closed"
    ELSE IF tail - next > Capacity THEN "Lagged" ELSE "Ok"

\* The receiver's position after recv: one further, or on a lag the oldest
\* value still held.
RecvNext(next) ==
    IF RecvResult(next) = "Ok" THEN next + 1
    ELSE IF RecvResult(next) = "Lagged" THEN tail - Capacity
    ELSE next

\* Receiver::resubscribe: a new receiver positioned at the current tail; it
\* sees the values sent after this call and none of those already queued.
Resubscribe == tail

\* Receivers alive: shutdown_rx until run_server returns, conn_shutdown of each
\* running handler.
RxCount ==
    (IF server_pc = "returned" THEN 0 ELSE 1)
    + Cardinality({c \in Conns : hpc[c] \in {"select", "echo", "goodbye"}})

\* The runtime is up until main returns; its tasks run no further afterwards.
Running == main_pc \notin {"done", "failed"}

\* ---------------------------------------------------------------- Init
Init(n, pc0) ==
    /\ tail = 0
    /\ tx_alive = TRUE
    /\ send_res = "none"
    /\ rx_next = [r \in 0..n |-> 0]
    /\ server_pc = "accept_loop"
    /\ server_recv = "none"
    /\ server_result = "none"
    /\ connections = {}
    /\ join_log = <<>>
    /\ accept_errs = 0
    /\ peer = [c \in 1..n |-> "none"]
    /\ inflight = [c \in 1..n |-> <<>>]
    /\ short_reads = 0
    /\ hpc = [c \in 1..n |-> "none"]
    /\ hrecv = [c \in 1..n |-> "none"]
    /\ buf = [c \in 1..n |-> <<>>]
    /\ readlog = [c \in 1..n |-> <<>>]
    /\ to_peer = [c \in 1..n |-> <<>>]
    /\ hres = [c \in 1..n |-> "none"]
    /\ task = [c \in 1..n |-> "none"]
    /\ goodbye_n = [c \in 1..n |-> 0]
    /\ io_fault = [c \in 1..n |-> {}]
    /\ born = [c \in 1..n |-> 0]
    /\ echo_log = [c \in 1..n |-> <<>>]
    /\ at_send = [c \in 1..n |-> FALSE]
    /\ main_pc = pc0
    /\ cur = 1
    /\ client_n = [c \in 1..n |-> -1]
    /\ report = "none"

\* ---------------------------------------------------------- run_server
\* Mutant of ServerRecv: a Lagged result is logged and the loop goes on.
ServerRecv_LaggedContinues ==
    /\ Running
    /\ server_pc = "accept_loop"
    /\ RecvResult(rx_next[0]) # "Empty"
    /\ server_recv' = RecvResult(rx_next[0])
    /\ rx_next' = [rx_next EXCEPT ![0] = RecvNext(rx_next[0])]
    /\ server_pc' = IF RecvResult(rx_next[0]) = "Lagged" THEN "accept_loop" ELSE "drain"
    /\ UNCHANGED <<tail, tx_alive, send_res, server_result, connections, join_log,
                   accept_errs, sock, hndl, at_send, mainv>>

\* select!: shutdown_rx.recv() completed; Ok, Lagged and Closed all break.
ServerRecv ==
    /\ Running
    /\ server_pc = "accept_loop"
    /\ RecvResult(rx_next[0]) # "Empty"
    /\ server_recv' = RecvResult(rx_next[0])
    /\ rx_next' = [rx_next EXCEPT ![0] = RecvNext(rx_next[0])]
    /\ server_pc' = "drain"
    /\ UNCHANGED <<tail, tx_alive, send_res, server_result, connections, join_log,
                   accept_errs, sock, hndl, at_send, mainv>>

\* The connection listener.accept() returns: the oldest one of the backlog.
Backlog(c) ==
    /\ peer[c] # "none"
    /\ hpc[c] = "none"
    /\ \A d \in Conns : d < c => hpc[d] # "none"

\* Mutant of ServerAccept: the listener is still polled during the drain.
ServerAccept_WhileDraining(c) ==
    /\ Running
    /\ server_pc \in {"accept_loop", "drain"}
    /\ Backlog(c)
    /\ rx_next' = [rx_next EXCEPT ![c] = Resubscribe]
    /\ born' = [born EXCEPT ![c] = Resubscribe]
    /\ connections' = connections \cup {c}
    /\ hpc' = [hpc EXCEPT ![c] = "select"]
    /\ task' = [task EXCEPT ![c] = "running"]
    /\ UNCHANGED <<tail, tx_alive, send_res, server_pc, server_recv, server_result,
                   join_log, accept_errs, sock, hrecv, buf, readlog, to_peer, hres,
                   goodbye_n, io_fault, echo_log, at_send, mainv>>

\* select!: listener.accept() returned Ok((socket, peer_addr)): resubscribe and
\* spawn the handler into the JoinSet.
ServerAccept(c) ==
    /\ Running
    /\ server_pc = "accept_loop"
    /\ Backlog(c)
    /\ rx_next' = [rx_next EXCEPT ![c] = Resubscribe]
    /\ born' = [born EXCEPT ![c] = Resubscribe]
    /\ connections' = connections \cup {c}
    /\ hpc' = [hpc EXCEPT ![c] = "select"]
    /\ task' = [task EXCEPT ![c] = "running"]
    /\ UNCHANGED <<tail, tx_alive, send_res, server_pc, server_recv, server_result,
                   join_log, accept_errs, sock, hrecv, buf, readlog, to_peer, hres,
                   goodbye_n, io_fault, echo_log, at_send, mainv>>

\* Mutant of ServerAcceptErr: the accept error is returned with `?`.
ServerAcceptErr_Fatal(max) ==
    /\ Running
    /\ server_pc = "accept_loop"
    /\ accept_errs < max
    /\ accept_errs' = accept_errs + 1
    /\ server_pc' = "returned"
    /\ server_result' = "Err"
    /\ UNCHANGED <<chan, server_recv, connections, join_log, sock, hndl, at_send,
                   mainv>>

\* select!: listener.accept() returned Err(e): logged, the loop goes on.
ServerAcceptErr(max) ==
    /\ Running
    /\ server_pc = "accept_loop"
    /\ accept_errs < max
    /\ accept_errs' = accept_errs + 1
    /\ UNCHANGED <<chan, server_pc, server_recv, server_result, connections,
                   join_log, sock, hndl, at_send, mainv>>

\* Mutant of ServerJoinNext: join_next() never yields a task that panicked.
ServerJoinNext_OnlyFinished(c) ==
    /\ Running
    /\ server_pc = "drain"
    /\ c \in connections
    /\ task[c] = "finished"
    /\ connections' = connections \ {c}
    /\ join_log' = Append(join_log, <<c, "Ok">>)
    /\ UNCHANGED <<chan, server_pc, server_recv, server_result, accept_errs, sock,
                   hndl, at_send, mainv>>

\* What join_next() returns for a finished task.
Joined(c) == IF task[c] = "panicked" THEN "JoinErr" ELSE "Ok"

\* Mutant of ServerJoinNext: a join error ends the drain with an error.
ServerJoinNext_Abort(c) ==
    /\ Running
    /\ server_pc = "drain"
    /\ c \in connections
    /\ task[c] \in {"finished", "panicked"}
    /\ connections' = connections \ {c}
    /\ join_log' = Append(join_log, <<c, Joined(c)>>)
    /\ IF Joined(c) = "JoinErr"
       THEN server_pc' = "returned" /\ server_result' = "Err"
       ELSE UNCHANGED <<server_pc, server_result>>
    /\ UNCHANGED <<chan, server_recv, accept_errs, sock, hndl, at_send, mainv>>

\* Mutant of ServerJoinNext: finished tasks are reaped in the accept loop too.
ServerJoinNext_WhileAccepting(c) ==
    /\ Running
    /\ server_pc \in {"accept_loop", "drain"}
    /\ c \in connections
    /\ task[c] \in {"finished", "panicked"}
    /\ connections' = connections \ {c}
    /\ join_log' = Append(join_log, <<c, Joined(c)>>)
    /\ UNCHANGED <<chan, server_pc, server_recv, server_result, accept_errs, sock,
                   hndl, at_send, mainv>>

\* while let Some(joined) = connections.join_next().await: a finished task
\* leaves the set; a join error is logged.
ServerJoinNext(c) ==
    /\ Running
    /\ server_pc = "drain"
    /\ c \in connections
    /\ task[c] \in {"finished", "panicked"}
    /\ connections' = connections \ {c}
    /\ join_log' = Append(join_log, <<c, Joined(c)>>)
    /\ UNCHANGED <<chan, server_pc, server_recv, server_result, accept_errs, sock,
                   hndl, at_send, mainv>>

\* Mutant of ServerReturn: the drain is left with tasks still in the set.
ServerReturn_NoDrain ==
    /\ Running
    /\ server_pc = "drain"
    /\ server_pc' = "returned"
    /\ server_result' = "Ok"
    /\ UNCHANGED <<chan, server_recv, connections, join_log, accept_errs, sock,
                   hndl, at_send, mainv>>

\* join_next() returned None: the set is empty, run_server returns Ok(()).
ServerReturn ==
    /\ Running
    /\ server_pc = "drain"
    /\ connections = {}
    /\ server_pc' = "returned"
    /\ server_result' = "Ok"
    /\ UNCHANGED <<chan, server_recv, connections, join_log, accept_errs, sock,
                   hndl, at_send, mainv>>

\* ---------------------------------------------------- handle_connection
\* handle_connection returns `res` and its socket and receiver are dropped; the
\* task logs an Err with eprintln!, which panics when stderr cannot be written,
\* and ends: `out` is what join_next() will find, a finished or a panicked task.
Return(c, res, out) ==
    /\ hpc' = [hpc EXCEPT ![c] = "done"]
    /\ hres' = [hres EXCEPT ![c] = res]
    /\ task' = [task EXCEPT ![c] = out]

TaskOuts(res) == IF res = "Ok" THEN {"finished"} ELSE {"finished", "panicked"}

\* Mutant of HandlerRecv: the receiver is polled during the echo write too, and
\* a result abandons the write.
HandlerRecv_DuringEcho(c) ==
    /\ Running
    /\ hpc[c] \in {"select", "echo"}
    /\ RecvResult(rx_next[c]) # "Empty"
    /\ hrecv' = [hrecv EXCEPT ![c] = RecvResult(rx_next[c])]
    /\ rx_next' = [rx_next EXCEPT ![c] = RecvNext(rx_next[c])]
    /\ IF RecvResult(rx_next[c]) = "Ok"
       THEN /\ hpc' = [hpc EXCEPT ![c] = "goodbye"]
            /\ UNCHANGED <<hres, task>>
       ELSE Return(c, "Ok", "finished")
    /\ UNCHANGED <<tail, tx_alive, send_res, srvv, sock, buf, readlog, to_peer,
                   goodbye_n, io_fault, born, echo_log, at_send, mainv>>

\* select!: shutdown_rx.recv() completed. Ok(()) goes on to write the goodbye;
\* Lagged and Closed return Ok(()) at once.
HandlerRecv(c) ==
    /\ Running
    /\ hpc[c] = "select"
    /\ RecvResult(rx_next[c]) # "Empty"
    /\ hrecv' = [hrecv EXCEPT ![c] = RecvResult(rx_next[c])]
    /\ rx_next' = [rx_next EXCEPT ![c] = RecvNext(rx_next[c])]
    /\ IF RecvResult(rx_next[c]) = "Ok"
       THEN /\ hpc' = [hpc EXCEPT ![c] = "goodbye"]
            /\ UNCHANGED <<hres, task>>
       ELSE Return(c, "Ok", "finished")
    /\ UNCHANGED <<tail, tx_alive, send_res, srvv, sock, buf, readlog, to_peer,
                   goodbye_n, io_fault, born, echo_log, at_send, mainv>>

\* Mutant of HandlerGoodbye: the handler returns Ok(()) without the write.
HandlerGoodbye_Skipped(c) ==
    /\ Running
    /\ hpc[c] = "goodbye"
    /\ Return(c, "Ok", "finished")
    /\ UNCHANGED <<chan, srvv, sock, hrecv, buf, readlog, to_peer, goodbye_n,
                   io_fault, born, echo_log, at_send, mainv>>

\* socket.write_all(b"server shutting down\n").await succeeded; return Ok(()).
HandlerGoodbye(c) ==
    /\ Running
    /\ hpc[c] = "goodbye"
    /\ to_peer' = [to_peer EXCEPT ![c] = @ \o GOODBYE]
    /\ goodbye_n' = [goodbye_n EXCEPT ![c] = Len(GOODBYE)]
    /\ Return(c, "Ok", "finished")
    /\ UNCHANGED <<chan, srvv, sock, hrecv, buf, readlog, io_fault, born, echo_log, at_send, mainv>>

\* socket.write_all(b"server shutting down\n").await? failed after k bytes: the
\* error is returned.
HandlerGoodbyeFail(c) ==
    /\ Running
    /\ hpc[c] = "goodbye"
    /\ \E k \in 0..Min(MaxPartial, Len(GOODBYE) - 1) :
          /\ to_peer' = [to_peer EXCEPT ![c] = @ \o Prefix(GOODBYE, k)]
          /\ goodbye_n' = [goodbye_n EXCEPT ![c] = k]
    /\ io_fault' = [io_fault EXCEPT ![c] = @ \cup {"goodbye"}]
    /\ \E out \in TaskOuts("WriteErr") : Return(c, "WriteErr", out)
    /\ UNCHANGED <<chan, srvv, sock, hrecv, buf, readlog, born, echo_log, at_send, mainv>>

\* select!: socket.read(&mut buf) returned Ok(n), n > 0.
HandlerRead(c) ==
    /\ Running
    /\ hpc[c] = "select"
    /\ peer[c] # "reset"
    /\ inflight[c] # <<>>
    /\ \E n \in ReadSizes(Len(inflight[c])) :
          /\ buf' = [buf EXCEPT ![c] = Prefix(inflight[c], n)]
          /\ readlog' = [readlog EXCEPT ![c] = @ \o Prefix(inflight[c], n)]
          /\ inflight' = [inflight EXCEPT ![c] = Suffix(@, n)]
          /\ short_reads' = CountRead(Len(inflight[c]), n)
    /\ hpc' = [hpc EXCEPT ![c] = "echo"]
    /\ UNCHANGED <<chan, srvv, peer, hrecv, to_peer, hres, task, goodbye_n, io_fault, born, echo_log, at_send, mainv>>

\* select!: socket.read(&mut buf) returned Ok(0): return Ok(()).
HandlerReadEof(c) ==
    /\ Running
    /\ hpc[c] = "select"
    /\ peer[c] = "closed"
    /\ inflight[c] = <<>>
    /\ Return(c, "Ok", "finished")
    /\ UNCHANGED <<chan, srvv, sock, hrecv, buf, readlog, to_peer, goodbye_n, io_fault, born, echo_log, at_send, mainv>>

\* select!: socket.read(&mut buf) returned Err(e): ConnectionReset.
HandlerReadErr(c) ==
    /\ Running
    /\ hpc[c] = "select"
    /\ peer[c] = "reset"
    /\ io_fault' = [io_fault EXCEPT ![c] = @ \cup {"read"}]
    /\ \E out \in TaskOuts("ConnectionReset") : Return(c, "ConnectionReset", out)
    /\ UNCHANGED <<chan, srvv, sock, hrecv, buf, readlog, to_peer, goodbye_n, born, echo_log, at_send, mainv>>

\* Mutant of HandlerEcho: the handlers share the buffer of the first connection.
HandlerEcho_SharedBuf(c) ==
    /\ Running
    /\ hpc[c] = "echo"
    /\ to_peer' = [to_peer EXCEPT ![c] = @ \o buf[1]]
    /\ echo_log' = [echo_log EXCEPT ![c] = Append(@, tail > 0)]
    /\ hpc' = [hpc EXCEPT ![c] = "select"]
    /\ UNCHANGED <<chan, srvv, sock, hrecv, buf, readlog, hres, task, goodbye_n,
                   io_fault, born, at_send, mainv>>

\* timeout(2 s, socket.write_all(&buf[..n])) returned Ok(Ok(())): next iteration.
HandlerEcho(c) ==
    /\ Running
    /\ hpc[c] = "echo"
    /\ to_peer' = [to_peer EXCEPT ![c] = @ \o buf[c]]
    /\ echo_log' = [echo_log EXCEPT ![c] = Append(@, tail > 0)]
    /\ hpc' = [hpc EXCEPT ![c] = "select"]
    /\ UNCHANGED <<chan, srvv, sock, hrecv, buf, readlog, hres, task, goodbye_n, io_fault, born, at_send, mainv>>

\* Mutant of HandlerEchoTimeout: the timeout is reported as a reset.
HandlerEchoTimeout_AsReset(c) ==
    /\ Running
    /\ hpc[c] = "echo"
    /\ \E k \in 0..Min(MaxPartial, Len(buf[c]) - 1) :
          to_peer' = [to_peer EXCEPT ![c] = @ \o Prefix(buf[c], k)]
    /\ io_fault' = [io_fault EXCEPT ![c] = @ \cup {"echo_timeout"}]
    /\ \E out \in TaskOuts("ConnectionReset") : Return(c, "ConnectionReset", out)
    /\ UNCHANGED <<chan, srvv, sock, hrecv, buf, readlog, goodbye_n, born, echo_log, at_send, mainv>>

\* timeout(..) returned Err(Elapsed) with k < n bytes written: TimedOut.
HandlerEchoTimeout(c) ==
    /\ Running
    /\ hpc[c] = "echo"
    /\ \E k \in 0..Min(MaxPartial, Len(buf[c]) - 1) :
          to_peer' = [to_peer EXCEPT ![c] = @ \o Prefix(buf[c], k)]
    /\ io_fault' = [io_fault EXCEPT ![c] = @ \cup {"echo_timeout"}]
    /\ \E out \in TaskOuts("TimedOut") : Return(c, "TimedOut", out)
    /\ UNCHANGED <<chan, srvv, sock, hrecv, buf, readlog, goodbye_n, born, echo_log, at_send, mainv>>

\* Mutant of HandlerEchoIoErr: the write error is returned.
HandlerEchoIoErr_Returned(c) ==
    /\ Running
    /\ hpc[c] = "echo"
    /\ \E k \in 0..Min(MaxPartial, Len(buf[c]) - 1) :
          to_peer' = [to_peer EXCEPT ![c] = @ \o Prefix(buf[c], k)]
    /\ io_fault' = [io_fault EXCEPT ![c] = @ \cup {"echo_io"}]
    /\ \E out \in TaskOuts("WriteErr") : Return(c, "WriteErr", out)
    /\ UNCHANGED <<chan, srvv, sock, hrecv, buf, readlog, goodbye_n, born, echo_log,
                   at_send, mainv>>

\* timeout(..) returned Ok(Err(e)) with k < n bytes written: `if let Err(e)`
\* matches the Elapsed error only, the write error is dropped and the loop goes on.
HandlerEchoIoErr(c) ==
    /\ Running
    /\ hpc[c] = "echo"
    /\ \E k \in 0..Min(MaxPartial, Len(buf[c]) - 1) :
          to_peer' = [to_peer EXCEPT ![c] = @ \o Prefix(buf[c], k)]
    /\ io_fault' = [io_fault EXCEPT ![c] = @ \cup {"echo_io"}]
    /\ hpc' = [hpc EXCEPT ![c] = "select"]
    /\ UNCHANGED <<chan, srvv, sock, hrecv, buf, readlog, hres, task, goodbye_n, born, echo_log, at_send, mainv>>

\* ------------------------------------------------------------ environment
\* A client's TcpStream::connect reaches the listener's backlog; the listener
\* is dropped when run_server returns.
Connect(c) ==
    /\ server_pc # "returned"
    /\ peer[c] = "none"
    /\ \A d \in Conns : d < c => peer[d] # "none"
    /\ peer' = [peer EXCEPT ![c] = "open"]
    /\ UNCHANGED <<chan, srvv, inflight, short_reads, hndl, at_send, mainv>>

\* The number of bytes the peer of c has written so far.
Written(c) == Len(readlog[c]) + Len(inflight[c])

RECURSIVE WrittenUpTo(_)
WrittenUpTo(c) == IF c = 0 THEN 0 ELSE Written(c) + WrittenUpTo(c - 1)

\* The peer writes its next byte; the peers write at most maxb bytes in all.
PeerWrite(c, maxb) ==
    /\ peer[c] = "open"
    /\ hpc[c] # "done"
    /\ WrittenUpTo(Cardinality(Conns)) < maxb
    /\ inflight' = [inflight EXCEPT ![c] = Append(@, Payload(c, Written(c) + 1))]
    /\ UNCHANGED <<chan, srvv, peer, short_reads, hndl, at_send, mainv>>

\* The peer closes its socket (FIN) or the connection is reset (RST).
PeerClose(c) ==
    /\ peer[c] = "open"
    /\ hpc[c] # "done"
    /\ \E how \in {"closed", "reset"} : peer' = [peer EXCEPT ![c] = how]
    /\ UNCHANGED <<chan, srvv, inflight, short_reads, hndl, at_send, mainv>>

\* Sender::send: Err with no receiver left, else the value is queued at the
\* tail, where every receiver positioned before it will find it.
SendValue ==
    IF RxCount = 0
    THEN /\ send_res' = "Err"
         /\ UNCHANGED <<tail, at_send>>
    ELSE /\ send_res' = "Ok"
         /\ tail' = tail + 1
         /\ at_send' = IF tail = 0
                       THEN [c \in Conns |-> hpc[c] = "select"]
                       ELSE at_send

\* The holder of shutdown_tx calls send(()).
Send(max) ==
    /\ tx_alive
    /\ tail < max
    /\ SendValue
    /\ UNCHANGED <<tx_alive, rx_next, srvv, sock, hndl, mainv>>

\* shutdown_tx is dropped: the channel is closed.
DropSender ==
    /\ tx_alive
    /\ tx_alive' = FALSE
    /\ UNCHANGED <<tail, send_res, rx_next, srvv, sock, hndl, at_send, mainv>>

\* ------------------------------------------------------- main, run_client
\* The clients main runs, one after the other: "client-1", "client-2".
NumClients == 2

\* b"hello from client 1", b"hello from client 2" as their bytes
Msg(c) == <<104, 101, 108, 108, 111, 32, 102, 114, 111, 109, 32, 99, 108, 105,
            101, 110, 116, 32, 48 + c>>

\* run_client: TcpStream::connect(addr).await? succeeded.
ClientConnect ==
    /\ main_pc = "connect"
    /\ server_pc # "returned"
    /\ peer' = [peer EXCEPT ![cur] = "open"]
    /\ main_pc' = "write"
    /\ UNCHANGED <<chan, srvv, inflight, short_reads, hndl, at_send, cur, client_n, report>>

\* run_client: socket.write_all(msg).await? succeeded.
ClientWrite ==
    /\ main_pc = "write"
    /\ inflight' = [inflight EXCEPT ![cur] = @ \o Msg(cur)]
    /\ main_pc' = "read"
    /\ UNCHANGED <<chan, srvv, peer, short_reads, hndl, at_send, cur, client_n, report>>

\* What main does after run_client returned Ok(()).
AfterClient == IF cur < NumClients THEN "connect" ELSE "send"

\* run_client: socket.read(&mut buf).await? returned n bytes of what the
\* handler wrote (n = 0 once the handler has closed with nothing written);
\* run_client returns and its socket is dropped.
ClientRead ==
    /\ main_pc = "read"
    /\ \/ \E n \in ReadSizes(Len(to_peer[cur])) :
             /\ client_n' = [client_n EXCEPT ![cur] = n]
             /\ short_reads' = CountRead(Len(to_peer[cur]), n)
       \/ /\ hpc[cur] = "done"
          /\ to_peer[cur] = <<>>
          /\ client_n' = [client_n EXCEPT ![cur] = 0]
          /\ UNCHANGED short_reads
    /\ \E how \in {"closed", "reset"} : peer' = [peer EXCEPT ![cur] = how]
    /\ main_pc' = AfterClient
    /\ cur' = IF cur < NumClients THEN cur + 1 ELSE cur
    /\ UNCHANGED <<chan, srvv, inflight, hndl, at_send, report>>

\* run_client returned Err (the `?` of connect, write_all or read): main
\* returns the error, shutdown_tx and the runtime are dropped.
ClientFail ==
    /\ main_pc \in {"connect", "write", "read"}
    /\ main_pc' = "failed"
    /\ tx_alive' = FALSE
    /\ UNCHANGED <<tail, send_res, rx_next, srvv, sock, hndl, at_send, cur,
                   client_n, report>>

\* let _ = shutdown_tx.send(());
MainSend ==
    /\ main_pc = "send"
    /\ SendValue
    /\ main_pc' = "await"
    /\ UNCHANGED <<tx_alive, rx_next, srvv, sock, hndl, cur, client_n, report>>

\* match server_task.await: Ok(Ok(())) is "server exited cleanly"; main
\* returns and shutdown_tx is dropped.
MainReport ==
    /\ main_pc = "await"
    /\ server_pc = "returned"
    /\ report' = IF server_result = "Ok" THEN "clean" ELSE "error"
    /\ main_pc' = "done"
    /\ tx_alive' = FALSE
    /\ UNCHANGED <<tail, send_res, rx_next, srvv, sock, hndl, at_send, cur,
                   client_n>>

\* ------------------------------------------------------------ specification
\* run_server and its handlers under a free environment: any peers, a holder
\* of shutdown_tx that sends or drops it at any moment.
FreeNext(maxb, maxs) ==
    \/ ServerRecv
    \/ \E c \in Conns : ServerAccept(c)
    \/ ServerAcceptErr(MaxAcceptErrs)
    \/ \E c \in Conns : ServerJoinNext(c)
    \/ ServerReturn
    \/ \E c \in Conns : HandlerRecv(c)
    \/ \E c \in Conns : HandlerGoodbye(c)
    \/ \E c \in Conns : HandlerGoodbyeFail(c)
    \/ \E c \in Conns : HandlerRead(c)
    \/ \E c \in Conns : HandlerReadEof(c)
    \/ \E c \in Conns : HandlerReadErr(c)
    \/ \E c \in Conns : HandlerEcho(c)
    \/ \E c \in Conns : HandlerEchoTimeout(c)
    \/ \E c \in Conns : HandlerEchoIoErr(c)
    \/ \E c \in Conns : Connect(c)
    \/ \E c \in Conns : PeerWrite(c, maxb)
    \/ \E c \in Conns : PeerClose(c)
    \/ Send(maxs)
    \/ DropSender

Next == FreeNext(MaxBytes, MaxSends)

Spec == Init(MaxConns, "none") /\ [][Next]_vars

LagNext == FreeNext(LagBytes, LagSends)

LagSpec == Init(LagConns, "none") /\ [][LagNext]_vars

\* The free environment with up to AccErrs accept errors.
AccNext ==
    \/ ServerRecv
    \/ \E c \in Conns : ServerAccept(c)
    \/ ServerAcceptErr(AccErrs)
    \/ \E c \in Conns : ServerJoinNext(c)
    \/ ServerReturn
    \/ \E c \in Conns : HandlerRecv(c)
    \/ \E c \in Conns : HandlerGoodbye(c)
    \/ \E c \in Conns : HandlerGoodbyeFail(c)
    \/ \E c \in Conns : HandlerRead(c)
    \/ \E c \in Conns : HandlerReadEof(c)
    \/ \E c \in Conns : HandlerReadErr(c)
    \/ \E c \in Conns : HandlerEcho(c)
    \/ \E c \in Conns : HandlerEchoTimeout(c)
    \/ \E c \in Conns : HandlerEchoIoErr(c)
    \/ \E c \in Conns : Connect(c)
    \/ \E c \in Conns : PeerWrite(c, AccBytes)
    \/ \E c \in Conns : PeerClose(c)
    \/ Send(MaxSends)
    \/ DropSender

AccSpec == Init(AccConns, "none") /\ [][AccNext]_vars

\* The tokio scheduler polls every task that is ready, and select! picks among
\* its ready branches at random: each step of the server task and of a handler
\* task that stays possible is taken in the end. A write_all to the socket ends
\* (the echo within its 2 seconds). Nothing is assumed of the peers or of the
\* holder of shutdown_tx.
HandlerIO(c) ==
    \/ HandlerGoodbye(c)
    \/ HandlerGoodbyeFail(c)
    \/ HandlerRead(c)
    \/ HandlerReadEof(c)
    \/ HandlerReadErr(c)
    \/ HandlerEcho(c)
    \/ HandlerEchoTimeout(c)
    \/ HandlerEchoIoErr(c)

Fairness(n) ==
    /\ WF_vars(ServerRecv)
    /\ WF_vars(\E c \in 1..n : ServerAccept(c))
    /\ WF_vars(\E c \in 1..n : ServerJoinNext(c))
    /\ WF_vars(ServerReturn)
    /\ \A c \in 1..n : WF_vars(HandlerRecv(c)) /\ WF_vars(HandlerIO(c))

FairNext == FreeNext(FairBytes, MaxSends)

FairSpec == Init(FairConns, "none") /\ [][FairNext]_vars /\ Fairness(FairConns)

\* The orchestrated run: main drives the two clients, sends and awaits.
MainNext ==
    \/ ServerRecv
    \/ \E c \in Conns : ServerAccept(c)
    \/ \E c \in Conns : ServerJoinNext(c)
    \/ ServerReturn
    \/ \E c \in Conns : HandlerRecv(c)
    \/ \E c \in Conns : HandlerGoodbye(c)
    \/ \E c \in Conns : HandlerGoodbyeFail(c)
    \/ \E c \in Conns : HandlerRead(c)
    \/ \E c \in Conns : HandlerReadEof(c)
    \/ \E c \in Conns : HandlerReadErr(c)
    \/ \E c \in Conns : HandlerEcho(c)
    \/ \E c \in Conns : HandlerEchoTimeout(c)
    \/ \E c \in Conns : HandlerEchoIoErr(c)
    \/ ClientConnect
    \/ ClientWrite
    \/ ClientRead
    \/ ClientFail
    \/ MainSend
    \/ MainReport

MainSpec == Init(NumClients, "connect") /\ [][MainNext]_vars

\* main is a task of the same runtime: its await of the server task ends once
\* the server task has.
FairMainSpec == MainSpec /\ Fairness(NumClients) /\ WF_vars(MainReport)

\* ------------------------------------------------------------------ claims
Spawned == {c \in Conns : task[c] # "none"}

\* The bytes the handler wrote before any goodbye: its echoes.
Echoed(c) == Prefix(to_peer[c], Len(to_peer[c]) - goodbye_n[c])

\* C1: whenever run_server has returned, every handler task that was spawned
\* into the JoinSet has ended (finished or panicked) and the JoinSet is empty:
\* the server is never in its returned state while a handler task still runs.
C1_ReturnedOnlyWhenDrained ==
    server_pc = "returned" =>
        /\ connections = {}
        /\ \A c \in Spawned : task[c] \in {"finished", "panicked"}
        /\ \A c \in Conns : hpc[c] \in {"none", "done"}

\* C1 witness: the server has returned after two handlers were spawned, one of
\* which finished and one of which panicked.
C1_Witness ==
    /\ server_pc = "returned"
    /\ Cardinality(Spawned) = 2
    /\ \E c \in Spawned : task[c] = "panicked"
    /\ \E c \in Spawned : task[c] = "finished"

\* C7: run_server returns Ok(()) whatever the handlers' results: when it has
\* returned its result is Ok, and the drain has joined every spawned task once,
\* a failed or panicked one being just one more joined task.
C7_ServerOkWhateverHandlers ==
    server_pc = "returned" =>
        /\ server_result = "Ok"
        /\ Len(join_log) = Cardinality(Spawned)
        /\ \A c \in Spawned : \E i \in 1..Len(join_log) :
              join_log[i] = <<c, IF task[c] = "panicked" THEN "JoinErr" ELSE "Ok">>

\* C7 witness: the server has returned Ok after a handler that timed out and a
\* handler that ended with a reset error whose task panicked.
C7_Witness ==
    /\ server_pc = "returned"
    /\ server_result = "Ok"
    /\ \E c \in Spawned : hres[c] = "TimedOut" /\ task[c] = "finished"
    /\ \E c \in Spawned : hres[c] = "ConnectionReset" /\ task[c] = "panicked"

\* C9: an echo write that exceeds its 2 seconds ends the handler with a
\* TimedOut failure (never ConnectionReset), a failed read ends it with a
\* ConnectionReset failure, and a handler that has returned reads and writes
\* nothing more.
C9_TimeoutIsNotReset ==
    [][\A c \in Conns :
        /\ "echo_timeout" \in io_fault'[c] =>
              hpc'[c] = "done" /\ hres'[c] = "TimedOut"
        /\ "read" \in io_fault'[c] =>
              hpc'[c] = "done" /\ hres'[c] = "ConnectionReset"
        /\ hres'[c] = "TimedOut" => "echo_timeout" \in io_fault'[c]
        /\ hres'[c] = "ConnectionReset" => "read" \in io_fault'[c]
        /\ hpc[c] = "done" =>
              /\ hpc'[c] = "done"
              /\ hres'[c] = hres[c]
              /\ readlog'[c] = readlog[c]
              /\ to_peer'[c] = to_peer[c]]_vars

\* C9 witness: one handler has ended on an echo timeout and another on a read
\* failure.
C9_Witness ==
    /\ \E c \in Conns : "echo_timeout" \in io_fault[c] /\ hres[c] = "TimedOut"
    /\ \E c \in Conns : "read" \in io_fault[c] /\ hres[c] = "ConnectionReset"

\* C4: a handler spawned after send() was called echoes nothing: a client that
\* connects after the send is offered the goodbye at most.
C4_NoEchoOnLateConnection ==
    \A c \in Spawned : born[c] > 0 => Echoed(c) = <<>>

\* The echoes the handler owes for what it has read: all of it, less the
\* buf[..n] it is writing.
EchoDue(c) ==
    IF hpc[c] = "echo"
    THEN Prefix(readlog[c], Len(readlog[c]) - Len(buf[c]))
    ELSE readlog[c]

\* C5: as long as no echo write of a connection has timed out or failed, the
\* bytes its handler has written before any goodbye are the bytes it has read,
\* in their order, and those are the bytes its own peer wrote, in their order.
C5_EchoFidelity ==
    \A c \in Conns :
        io_fault[c] \cap {"echo_timeout", "echo_io"} = {} =>
            /\ Echoed(c) = EchoDue(c)
            /\ \A i \in 1..Len(readlog[c]) : readlog[c][i] = Payload(c, i)

\* C5 witness: two connections are open at once, and each has had its own
\* byte echoed.
C5_Witness ==
    /\ \A c \in {1, 2} : c \in Conns /\ hpc[c] = "select" /\ io_fault[c] = {}
    /\ to_peer[1] = <<Payload(1, 1)>>
    /\ to_peer[2] = <<Payload(2, 1)>>

\* C6 as stated: every handler that was waiting in its select when the send
\* was called ends with the whole goodbye as the last bytes it wrote.
C6_GoodbyeToEveryWaitingHandler ==
    \A c \in Conns :
        (at_send[c] /\ hpc[c] = "done") =>
            /\ goodbye_n[c] = Len(GOODBYE)
            /\ to_peer[c] = Echoed(c) \o GOODBYE

\* C6 as amended: a handler that was waiting in its select when the send was
\* called, and that ends with Ok(()) from the branch of the received event,
\* has written the whole goodbye as its last bytes; once it has received the
\* event it is writing the goodbye or has returned, and echoes nothing more.
C6_GoodbyeWhenEventObserved ==
    \A c \in Conns :
        /\ (at_send[c] /\ hpc[c] = "done" /\ hrecv[c] = "Ok" /\ hres[c] = "Ok") =>
              /\ goodbye_n[c] = Len(GOODBYE)
              /\ to_peer[c] = Echoed(c) \o GOODBYE
        /\ (at_send[c] /\ hrecv[c] = "Ok") => hpc[c] \in {"goodbye", "done"}

\* C6 witness: a handler that was waiting at the send has echoed a byte and
\* has ended with the goodbye.
C6_Witness ==
    \E c \in Conns :
        /\ at_send[c]
        /\ hpc[c] = "done"
        /\ hrecv[c] = "Ok"
        /\ hres[c] = "Ok"
        /\ to_peer[c] = <<Payload(c, 1)>> \o GOODBYE

\* C2: once send() has been called, every running handler comes to receive
\* from its shutdown receiver (or has ended otherwise): no handler's receiver
\* stays pending for ever.
C2_EveryHandlerObservesShutdown ==
    \A c \in 1..FairConns :
        (tail > 0 /\ hpc[c] \in {"select", "echo"})
            ~> (hrecv[c] # "none" \/ hpc[c] = "done")

\* C3: once send() has been called, run_server comes to return.
C3_ServerReturnsAfterSend == (tail > 0) ~> (server_pc = "returned")

\* C8: whatever shutdown_rx.recv() yields to the server loop (Ok, Lagged or
\* Closed), that step takes the server from the accept loop to the drain and
\* changes nothing else but the receiver: the JoinSet and every handler are as
\* they were; and outside the accept loop no handler is ever spawned.
C8_AnyRecvResultStopsAccepting ==
    [][/\ (server_recv = "none" /\ server_recv' # "none") =>
             /\ server_recv' \in {"Ok", "Lagged", "Closed"}
             /\ server_pc = "accept_loop"
             /\ server_pc' = "drain"
             /\ UNCHANGED <<tail, tx_alive, send_res, server_result, connections,
                            join_log, accept_errs, sock, hndl, at_send, mainv>>
             /\ \A c \in Conns : rx_next'[c] = rx_next[c]
       /\ server_recv # "none" =>
             /\ server_recv' = server_recv
             /\ server_pc' # "accept_loop"
             /\ connections' \subseteq connections
             /\ \A c \in Conns : task[c] = "none" => task'[c] = "none"]_vars

\* C8 witness: the server loop was stopped by a Lagged result with a handler
\* in its JoinSet, and has drained and returned.
C8_Witness ==
    /\ server_recv = "Lagged"
    /\ server_pc = "returned"
    /\ Spawned # {}

\* C10: in the orchestrated run, once main has sent the shutdown event and
\* awaits the server task, it comes to print "server exited cleanly".
C10_MainReportsCleanExit == (main_pc = "await") ~> (report = "clean")

\* C10 witness: main has sent the event with no handler left running and the
\* server still in its accept loop.
C10_Witness ==
    /\ main_pc = "await"
    /\ server_pc = "accept_loop"
    /\ Spawned = 1..NumClients
    /\ \A c \in Spawned : hpc[c] = "done"

\* C11: a handler that has received the shutdown event and has returned has
\* returned Ok(()), whether its write of the goodbye succeeded or failed.
C11_GoodbyeFailureStillSuccess ==
    \A c \in Conns : (hrecv[c] = "Ok" /\ hpc[c] = "done") => hres[c] = "Ok"

\* The echo writes the handler has completed after send() was called.
EchoesAfterSend(c) == Cardinality({i \in 1..Len(echo_log[c]) : echo_log[c][i]})

\* C12: no handler completes two or more echoes after send() has been called.
C12_AtMostOneEchoAfterSend == \A c \in Conns : EchoesAfterSend(c) <= 1

\* C14: a handler whose receiver yielded Lagged or Closed ends as it does on
\* the event: it has attempted the write of the goodbye and has returned Ok(()).
C14_LaggedOrClosedAsEvent ==
    \A c \in Conns :
        (hrecv[c] \in {"Lagged", "Closed"} /\ hpc[c] = "done") =>
            /\ hres[c] = "Ok"
            /\ goodbye_n[c] > 0 \/ "goodbye" \in io_fault[c]

\* C13: run_server only moves forward, from the accept loop to the drain to
\* its return; it leaves the accept loop on a result of its own receiver (Ok,
\* Lagged or Closed) and on nothing else; and outside the accept loop it takes
\* no connection from the listener, logs no accept error and spawns no task.
C13_ServerMovesForwardOnly ==
    [][/\ server_pc = "accept_loop" => server_pc' \in {"accept_loop", "drain"}
       /\ server_pc = "drain" => server_pc' \in {"drain", "returned"}
       /\ server_pc = "returned" => server_pc' = "returned"
       /\ (server_pc = "accept_loop" /\ server_pc' = "drain") =>
             /\ RecvResult(rx_next[0]) \in {"Ok", "Lagged", "Closed"}
             /\ server_recv = "none"
             /\ server_recv' = RecvResult(rx_next[0])
       /\ server_pc # "accept_loop" =>
             /\ accept_errs' = accept_errs
             /\ connections' \subseteq connections
             /\ \A c \in Conns :
                   task[c] = "none" =>
                       /\ task'[c] = "none"
                       /\ hpc'[c] = "none"
                       /\ rx_next'[c] = rx_next[c]]_vars

\* C13 witness: the server left its accept loop on a Lagged result and has
\* returned, with a connection in the listener's backlog that it never took.
C13_Witness ==
    /\ server_recv = "Lagged"
    /\ server_pc = "returned"
    /\ \E c \in Conns : peer[c] # "none" /\ hpc[c] = "none"

\* C15: a step that logs an accept error leaves the server in its accept loop
\* and changes nothing else: the JoinSet, the channel and its receivers, every
\* handler and every socket are as they were; and whatever the number of accept
\* errors, the server leaves the accept loop only on a result of its receiver
\* and never returns an error.
C15_AcceptErrorChangesNothing ==
    [][/\ accept_errs' # accept_errs =>
             /\ accept_errs' = accept_errs + 1
             /\ server_pc = "accept_loop"
             /\ server_pc' = "accept_loop"
             /\ UNCHANGED <<chan, server_recv, server_result, connections,
                            join_log, sock, hndl, at_send, mainv>>
       /\ server_recv' = "none" => server_pc' = "accept_loop"
       /\ server_result' \in {"none", "Ok"}]_vars

\* C15 witness: after AccErrs accept errors the server is in its accept loop
\* with a handler running and a connection waiting in the backlog.
C15_Witness ==
    /\ accept_errs = AccErrs
    /\ server_pc = "accept_loop"
    /\ \E c \in Conns : hpc[c] = "select" /\ c \in connections
    /\ \E c \in Conns : peer[c] = "open" /\ hpc[c] = "none"

\* The handler is writing the goodbye or has written some of it.
InGoodbye(c) == hpc[c] = "goodbye" \/ goodbye_n[c] > 0

\* The goodbye comes after the echoes, and after the whole echo of every byte
\* read unless an echo write failed.
GoodbyeAfterEchoes(c) ==
    InGoodbye(c) =>
        /\ hrecv[c] = "Ok"
        /\ to_peer[c] = Echoed(c) \o Prefix(GOODBYE, goodbye_n[c])
        /\ io_fault[c] \cap {"echo_timeout", "echo_io"} = {} => Echoed(c) = readlog[c]

\* C16: a handler takes a result of its receiver only in its select, never
\* during an echo write; a send() called during an echo write leaves the write
\* going, and the write ends before the handler is back in its select; the
\* goodbye is written after the whole echo of the bytes read, never before or
\* inside it.
C16_ShutdownOnlyAtTheRace ==
    [][\A c \in Conns :
        /\ (hrecv[c] = "none" /\ hrecv'[c] # "none") => hpc[c] = "select"
        /\ (hpc[c] = "echo" /\ tail' # tail) =>
              /\ hpc'[c] = "echo"
              /\ buf'[c] = buf[c]
              /\ to_peer'[c] = to_peer[c]
        /\ hpc[c] = "echo" => hpc'[c] \in {"echo", "select", "done"}
        /\ GoodbyeAfterEchoes(c)
        /\ GoodbyeAfterEchoes(c)']_vars

\* C16 witness: send() was called during the second echo write of connection
\* 1, which completed that echo and then received the event and wrote the
\* goodbye (k = 2); connection 2 received the event before any read (k = 0).
C16_Witness ==
    /\ Cardinality(Conns) >= 2
    /\ echo_log[1] = <<FALSE, TRUE>>
    /\ ~at_send[1]
    /\ hrecv[1] = "Ok"
    /\ to_peer[1] = <<Payload(1, 1), Payload(1, 2)>> \o GOODBYE
    /\ at_send[2]
    /\ hrecv[2] = "Ok"
    /\ to_peer[2] = GOODBYE

\* The failure handle_connection returns for the I/O failures it has met.
FailureOf(c) ==
    IF "read" \in io_fault[c] THEN "ConnectionReset"
    ELSE IF "echo_timeout" \in io_fault[c] THEN "TimedOut"
    ELSE IF "goodbye" \in io_fault[c] THEN "WriteErr"
    ELSE "Ok"

\* C17: an echo write that fails with an I/O error (not the timeout) leaves the
\* handler running and back in its select with no result; a handler that has
\* returned has returned a failure only for a failed read, an echo timeout or
\* a failed goodbye write, and Ok(()) otherwise, echo write errors or not.
C17_EchoWriteErrorIsDropped ==
    [][\A c \in Conns :
        /\ ("echo_io" \notin io_fault[c] /\ "echo_io" \in io_fault'[c]) =>
              /\ hpc[c] = "echo"
              /\ hpc'[c] = "select"
              /\ hres'[c] = "none"
              /\ task'[c] = "running"
        /\ hpc'[c] = "done" => hres'[c] = FailureOf(c)'
        /\ hpc'[c] # "done" => hres'[c] = "none"]_vars

\* C17 witness: a handler whose echo of the first byte failed with nothing
\* written went on to read and echo the second byte, and has returned Ok(()).
C17_Witness ==
    \E c \in Conns :
        /\ "echo_io" \in io_fault[c]
        /\ readlog[c] = <<Payload(c, 1), Payload(c, 2)>>
        /\ to_peer[c] = <<Payload(c, 2)>>
        /\ hpc[c] = "done"
        /\ hres[c] = "Ok"

\* C18 as stated: once shutdown_tx is dropped, every running handler comes to
\* return Ok(()) and run_server comes to return.
C18_DropEndsEveryHandlerWithSuccess ==
    /\ \A c \in 1..FairConns :
          (~tx_alive /\ hpc[c] \in {"select", "echo", "goodbye"})
              ~> (hpc[c] = "done" /\ hres[c] = "Ok")
    /\ (~tx_alive) ~> (server_pc = "returned")

\* C18 as amended: once shutdown_tx is dropped, every running handler comes to
\* return, with Ok(()) unless it has met a failed read, an echo timeout or a
\* failed goodbye write, and run_server comes to return.
C18_DropEndsEveryHandler ==
    /\ \A c \in 1..FairConns :
          (~tx_alive /\ hpc[c] \in {"select", "echo", "goodbye"})
              ~> (hpc[c] = "done" /\ hres[c] = FailureOf(c))
    /\ (~tx_alive) ~> (server_pc = "returned")

\* C18 witness: a handler spawned after the send, whose receiver missed the
\* event, was ended by the drop of the sender, and the server has returned.
C18_Witness ==
    /\ ~tx_alive
    /\ tail = 1
    /\ server_pc = "returned"
    /\ \E c \in Conns :
          /\ born[c] = 1
          /\ hrecv[c] = "Closed"
          /\ hres[c] = "Ok"

\* The tasks join_next() has returned so far.
JoinedTasks == {join_log[i][1] : i \in 1..Len(join_log)}

\* C19: the JoinSet gains a task only in the accept loop, one new task at a
\* step, and loses a task only in the drain, one ended task at a step, logged
\* once; in the accept loop every task spawned is still in the set, ended or
\* not; and when run_server has returned the drain has removed as many tasks
\* as were spawned.
C19_GrowsAcceptingShrinksDraining ==
    [][/\ ~(connections' \subseteq connections) =>
             /\ server_pc = "accept_loop"
             /\ server_pc' = "accept_loop"
             /\ \E c \in Conns \ connections :
                   /\ task[c] = "none"
                   /\ connections' = connections \cup {c}
       /\ ~(connections \subseteq connections') =>
             /\ server_pc = "drain"
             /\ \E c \in connections :
                   /\ task[c] \in {"finished", "panicked"}
                   /\ c \notin JoinedTasks
                   /\ connections' = connections \ {c}
                   /\ join_log' = Append(join_log, <<c, Joined(c)>>)
       /\ join_log' # join_log => connections' # connections
       /\ server_pc' = "accept_loop" =>
             /\ connections' = Spawned'
             /\ join_log' = <<>>
       /\ connections' \cap JoinedTasks' = {}
       /\ server_pc' = "returned" =>
             /\ Len(join_log') = Cardinality(Spawned')
             /\ JoinedTasks' = Spawned']_vars

\* C19 witness: the server is back from a drain that removed two tasks, the
\* second one spawned first, one of them panicked.
C19_Witness ==
    /\ server_pc = "returned"
    /\ Len(join_log) = 2
    /\ join_log[1][1] = 2
    /\ join_log[2] = <<1, "JoinErr">>

====
